---- MODULE Spec2Model ----
(***************************************************************************)
(* telegram-brain-claude: the request admission and accounting core.       *)
(*                                                                         *)
(*   rate_limiter.py  RateLimiter: cooldown, daily budget, answer cache    *)
(*   bot.py           the handlers (coroutines) and the dedup guard        *)
(*                                                                         *)
(* Units.  time.time() is a float of seconds; the model keeps it as an     *)
(* integer number of milliseconds, so sub-second readings exist.  Money is *)
(* a float of dollars in the source; the model keeps it in cents.          *)
(* datetime.now().strftime("%Y-%m-%d") is the local calendar date; the     *)
(* model numbers the dates 0, 1, 2, ...                                    *)
(***************************************************************************)
EXTENDS Integers, Sequences, FiniteSets, TLC

\* ---------------------------------------------------------------- bounds
\* Last calendar date the model reaches.
MaxDay == 1
\* Cap on the cents recorded for one user on one date (stops record_spend).
MaxSpend == 15
\* Number of inbound events (updates) the bot receives in one behaviour.
MaxReq == 2

\* ------------------------------------------------- configuration (defaults)
cooldown_seconds == 30
\* in cents: the 0.10 USD of the budget tests (the default is 1.00 USD)
daily_budget_usd == 10
cache_ttl_seconds == 300

\* bot.py:49
DEDUP_WINDOW_SECONDS == 300

cooldown_ms == cooldown_seconds * 1000
cache_ttl_ms == cache_ttl_seconds * 1000
dedup_window_ms == DEDUP_WINDOW_SECONDS * 1000

\* The readings of the wall clock the model distinguishes (milliseconds).
TimePoints == {0, 29500, 30000, 300000, 330500}
\* The readings the directly driven cache sees: a store, a lookup exactly
\* the TTL later and one past the TTL.
CacheTimes == {0, 300000, 330500}
Days == 0..MaxDay
\* cost_usd values an engine call returns (cents).
Costs == {0, 5, 10}

\* Python's None (an absent dict key): a value outside every range used here.
None == 0 - 1
\* last_error = None, result["error"] = None
NoError == "none"
Owner == "owner"
Other == "other"
Users == {Owner, Other}
\* The users whose records the directly driven RateLimiter holds.
ApiUsers == Users

\* " ".join(context.args): the empty question and three words, two of which
\* differ in case only.  A question is a sequence of characters.
Questions == {<<>>, <<"a">>, <<"A">>, <<"b">>}
\* question texts handed to the cache directly: two that differ in case and
\* surrounding whitespace only, and a different one
CacheQuestions == {<<"a">>, <<" ", "A", " ">>, <<"b">>}
\* tool names the engine asks permission for: the whitelist and two others
ToolNames == {"Read", "Grep", "Glob", "LS", "Write", "Bash"}
\* values of the file_path and path arguments: "", "/n.md", "/a/.ENV",
\* "/.git/c", "/Secrets"
PathValues ==
    { <<>>, <<"/", "n", ".", "m", "d">>, <<"/", "a", "/", ".", "E", "N", "V">>,
      <<"/", ".", "g", "i", "t", "/", "c">>, <<"/", "S", "e", "c", "r", "e", "t", "s">> }
\* tool_input: a dict with any of the keys file_path and path
ToolInputs == UNION {[D -> PathValues] : D \in SUBSET {"file_path", "path"}}
\* answer texts an engine call returns
Answers == {"a1", "a2"}
\* (content, message.date) of the captures that arrive
Captures == {<<"hello", 1>>, <<"hello", 2>>, <<"world", 1>>}
\* where save_and_push_note fails, if it does
\* ("push": git push exits non-zero; "push_raise": running it raises)
FailPoints == {"none", "write", "add", "commit", "push", "push_raise"}
Slots == 1..MaxReq

VARIABLES
    now,            \* time.time(), ms
    today,          \* datetime.now() as a calendar date
    last_query,     \* RateLimiter._last_query
    daily_spend,    \* RateLimiter._daily_spend
    spend_dates,    \* RateLimiter._spend_dates
    cache,          \* RateLimiter._cache: key -> <<result, timestamp>>
    message_hashes, \* bot._message_hashes: hash -> first-seen time
    last_error,     \* bot.last_error
    inbox,          \* the vault's inbox folder: file name -> note content
    req,            \* per inbound event: its handler's position, locals and history
    ret,            \* the latest direct RateLimiter call and what it returned
    last_admit,     \* history: per user, when check_rate_limit last admitted
    last_check,     \* history: per user, <<time, verdict>> of the latest check_rate_limit
    ledger,         \* history: per user and date, the costs passed to record_spend
    denied_on,      \* history: per user, the date of the latest budget denial
    stored,         \* history: per user and question text, the latest direct
                    \* cache_result <<result, time>> not yet stored over
    first_seen      \* history: per (content, timestamp), when a direct
                    \* is_duplicate_message last recorded it

limiter_vars == <<last_query, daily_spend, spend_dates>>
bot_vars == <<cache, message_hashes, last_error, req>>
hist_vars == <<last_admit, last_check, ledger, denied_on, stored, first_seen>>
vars == <<now, today, last_query, daily_spend, spend_dates,
          cache, message_hashes, last_error, inbox, req, ret,
          last_admit, last_check, ledger, denied_on, stored, first_seen>>

\* ------------------------------------------------------------ RateLimiter

\* rate_limiter.py:35-37: the denial test of check_rate_limit.
RateDenied_le(lq, u, t) == lq[u] # None /\ t - lq[u] <= cooldown_ms
RateDenied_forward_only(lq, u, t) ==
    lq[u] # None /\ t >= lq[u] /\ t - lq[u] < cooldown_ms
RateDenied(lq, u, t) == lq[u] # None /\ t - lq[u] < cooldown_ms

\* rate_limiter.py:38: wait_time = int(cooldown_seconds - elapsed); the
\* difference is positive on this path, so int() is the floor.
wait_time(lq, u, t) == (cooldown_ms - (t - lq[u])) \div 1000

\* rate_limiter.py:35-42: _last_query after check_rate_limit(u) at time t.
check_rate_limit_touch(lq, u, t) == [lq EXCEPT ![u] = t]
check_rate_limit_forget(lq, u, t) == lq
check_rate_limit_global(lq, u, t) ==
    IF RateDenied(lq, u, t) THEN lq ELSE [x \in DOMAIN lq |-> t]
check_rate_limit_store(lq, u, t) ==
    IF RateDenied(lq, u, t) THEN lq ELSE [lq EXCEPT ![u] = t]

\* rate_limiter.py:49-51 and 64-66: the lazy rollover, <<_daily_spend, _spend_dates>>.
Rollover_keep_epoch(spend, dates, u, d) ==
    IF dates[u] # d THEN <<[spend EXCEPT ![u] = 0], dates>> ELSE <<spend, dates>>
Rollover(spend, dates, u, d) ==
    IF dates[u] # d
    THEN <<[spend EXCEPT ![u] = 0], [dates EXCEPT ![u] = d]>>
    ELSE <<spend, dates>>

\* dict.get(user_id, 0.0)
SpendGet(spend, u) == IF spend[u] = None THEN 0 ELSE spend[u]

\* rate_limiter.py:53-58: check_budget's verdict on the rolled-over table.
BudgetAllowed_gt(spend, dates, u, d) ==
    ~(SpendGet(Rollover(spend, dates, u, d)[1], u) > daily_budget_usd)
BudgetAllowed(spend, dates, u, d) ==
    ~(SpendGet(Rollover(spend, dates, u, d)[1], u) >= daily_budget_usd)

\* rate_limiter.py:60-68: <<_daily_spend, _spend_dates>> after record_spend.
record_spend_overwrite(spend, dates, u, d, c) ==
    LET r == Rollover(spend, dates, u, d)
    IN  <<[r[1] EXCEPT ![u] = c], r[2]>>
record_spend_refund(spend, dates, u, d, c) ==
    LET r == Rollover(spend, dates, u, d)
    IN  <<[r[1] EXCEPT ![u] = SpendGet(r[1], u) - c], r[2]>>
record_spend_tables(spend, dates, u, d, c) ==
    LET r == Rollover(spend, dates, u, d)
    IN  <<[r[1] EXCEPT ![u] = SpendGet(r[1], u) + c], r[2]>>

\* rate_limiter.py:70-77: get_daily_spend reads, and writes nothing.
get_daily_spend_stale(spend, dates, u, d) == SpendGet(spend, u)
get_daily_spend(spend, dates, u, d) ==
    IF dates[u] # d THEN 0 ELSE SpendGet(spend, u)

Max(a, b) == IF a >= b THEN a ELSE b

\* rate_limiter.py:79-81
get_remaining_budget(spend, dates, u, d) ==
    Max(0, daily_budget_usd - get_daily_spend(spend, dates, u, d))

\* ---- the answer cache

\* str.strip() and str.lower() on a sequence of characters
IsSpace(c) == c \in {" ", "\t", "\n"}
RECURSIVE LStrip(_)
LStrip(q) == IF q # <<>> /\ IsSpace(Head(q)) THEN LStrip(Tail(q)) ELSE q
RECURSIVE RStrip(_)
RStrip(q) ==
    IF q # <<>> /\ IsSpace(q[Len(q)]) THEN RStrip(SubSeq(q, 1, Len(q) - 1)) ELSE q
Strip(q) == RStrip(LStrip(q))
LowerChar(c) ==
    CASE c = "A" -> "a" [] c = "B" -> "b" [] c = "E" -> "e" [] c = "N" -> "n"
      [] c = "S" -> "s" [] c = "V" -> "v" [] OTHER -> c
Lower(q) == [i \in 1..Len(q) |-> LowerChar(q[i])]

\* f"{user_id}": the decimal digits of the sender's id
user_id_str(u) == IF u = Owner THEN <<"7">> ELSE <<"7", "1">>

\* rate_limiter.py:83-86: md5 of f"{user_id}:{normalized}"; the digest is kept
\* as the string it is computed from (no two of the model's strings share a
\* digest).
cache_key_raw(u, q) == user_id_str(u) \o <<":">> \o q
cache_key_shared(u, q) == Lower(Strip(q))
cache_key(u, q) == user_id_str(u) \o <<":">> \o Lower(Strip(q))

\* rate_limiter.py:96: the expiry test of get_cached_result.
CacheExpired_ge(ts, t) == t - ts >= cache_ttl_ms
CacheExpired(ts, t) == t - ts > cache_ttl_ms

EmptyMap == [x \in {} |-> 0]
Without(f, k) == [x \in DOMAIN f \ {k} |-> f[x]]
With(f, k, v) == [x \in DOMAIN f \cup {k} |-> IF x = k THEN v ELSE f[x]]

\* rate_limiter.py:88-100: what get_cached_result returns (None: nothing) ...
get_cached_result(c, u, q, t) ==
    LET key == cache_key(u, q)
    IN  IF key \notin DOMAIN c THEN <<>>
        ELSE IF CacheExpired(c[key][2], t) THEN <<>>
        ELSE <<c[key][1]>>

\* ... and the table it leaves (an expired entry is deleted on read).
get_cached_result_table_pop(c, u, q, t) == Without(c, cache_key(u, q))
get_cached_result_table(c, u, q, t) ==
    LET key == cache_key(u, q)
    IN  IF key \in DOMAIN c /\ CacheExpired(c[key][2], t) THEN Without(c, key) ELSE c

\* rate_limiter.py:102-105
cache_result(c, u, q, result, t) == With(c, cache_key(u, q), <<result, t>>)

\* rate_limiter.py:107-116: the keys cleanup_expired_cache deletes
ExpiredKeys(c, t) == {k \in DOMAIN c : CacheExpired(c[k][2], t)}
cleanup_expired_cache(c, t) == [k \in DOMAIN c \ ExpiredKeys(c, t) |-> c[k]]

\* ---- the dedup guard

\* bot.py:52-54: md5 of "content:timestamp", kept as the pair.
hash_message_content(cap) == cap[1]
hash_message(cap) == cap

\* bot.py:63: the expiry test of the sweep.
DedupExpired_ge(t0, t) == t - t0 >= dedup_window_ms
DedupExpired(t0, t) == t - t0 > dedup_window_ms

\* bot.py:62-65
Sweep_none(mh, t) == mh
Sweep(mh, t) == [h \in {x \in DOMAIN mh : ~DedupExpired(mh[x], t)} |-> mh[h]]

\* bot.py:57-71: what is_duplicate_message returns ...
is_duplicate_message(mh, cap, t) == hash_message(cap) \in DOMAIN Sweep(mh, t)

\* ... and the table it leaves.
is_duplicate_message_table_refresh(mh, cap, t) == With(Sweep(mh, t), hash_message(cap), t)
is_duplicate_message_table(mh, cap, t) ==
    IF is_duplicate_message(mh, cap, t) THEN Sweep(mh, t)
    ELSE With(Sweep(mh, t), hash_message(cap), t)

\* ---- note persistence

\* git_ops.py:9-69: the result of save_and_push_note when the step `fail` fails.
save_and_push_note_all_or_nothing(fail) ==
    IF fail = "none"
    THEN [success |-> TRUE, error |-> NoError, file_saved |-> TRUE, git_committed |-> TRUE]
    ELSE [success |-> FALSE, error |-> "io", file_saved |-> FALSE, git_committed |-> FALSE]
save_and_push_note(fail) ==
    CASE fail = "write" ->
            [success |-> FALSE, error |-> "io", file_saved |-> FALSE, git_committed |-> FALSE]
      [] fail \in {"add", "commit"} ->
            [success |-> FALSE, error |-> "git", file_saved |-> TRUE, git_committed |-> FALSE]
      [] fail = "push" ->
            [success |-> FALSE, error |-> "push", file_saved |-> TRUE, git_committed |-> TRUE]
      [] fail = "push_raise" ->
            [success |-> FALSE, error |-> "io", file_saved |-> TRUE, git_committed |-> TRUE]
      [] OTHER ->
            [success |-> TRUE, error |-> NoError, file_saved |-> TRUE, git_committed |-> TRUE]

\* note_formatter.py:6-8: the date and the time of day to the second
generate_filename(d, t) == <<d, t \div 1000>>

\* note_formatter.py:11-34: the note holds the content (the capture time in
\* it is the one of the file name)
format_note(cap, d, t) == <<cap[1], d, t \div 1000>>

\* git_ops.py:23-29: write_text creates the file or replaces its content
write_text(files, name, content) == With(files, name, content)

\* ---- the tool permission callback

\* ask_handler.py:25
READ_ONLY_TOOLS == {"Read", "Grep", "Glob", "LS"}
\* ask_handler.py:28: ".env", "credentials", "secrets", ".git/"
BLOCKED_PATTERNS ==
    << <<".", "e", "n", "v">>,
       <<"c", "r", "e", "d", "e", "n", "t", "i", "a", "l", "s">>,
       <<"s", "e", "c", "r", "e", "t", "s">>,
       <<".", "g", "i", "t", "/">> >>

\* `pattern in text` on sequences of characters
Contains(text, pattern) ==
    \E i \in 0..(Len(text) - Len(pattern)) : SubSeq(text, i + 1, i + Len(pattern)) = pattern

\* the text holds one of BLOCKED_PATTERNS, whatever its case
Sensitive(text) ==
    \E i \in 1..Len(BLOCKED_PATTERNS) : Contains(Lower(text), BLOCKED_PATTERNS[i])

\* tool_input.get(k, "")
InputGet(input, k) == IF k \in DOMAIN input THEN input[k] ELSE <<>>

\* ask_handler.py:64: the one text that is tested; `or` takes "path" only
\* when "file_path" is absent or empty.
CheckedPath(input) ==
    IF InputGet(input, "file_path") # <<>> THEN InputGet(input, "file_path")
    ELSE InputGet(input, "path")

\* ask_handler.py:47-75
enforce_read_only(tool_name, tool_input) ==
    IF tool_name \notin READ_ONLY_TOOLS
    THEN [behavior |-> "deny", message |-> "not allowed", interrupt |-> FALSE]
    ELSE IF Sensitive(CheckedPath(tool_input))
    THEN [behavior |-> "deny", message |-> "sensitive", interrupt |-> FALSE]
    ELSE [behavior |-> "allow", updated_input |-> tool_input]

\* ---- the methods as steps on the limiter's tables (with their history)

\* rate_limiter.py:31-42
check_rate_limit(u) ==
    /\ last_query' = check_rate_limit_store(last_query, u, now)
    /\ last_admit' = IF RateDenied(last_query, u, now) THEN last_admit
                     ELSE [last_admit EXCEPT ![u] = now]
    /\ last_check' = [last_check EXCEPT ![u] = <<now, ~RateDenied(last_query, u, now)>>]

\* rate_limiter.py:44-58
check_budget(u) ==
    /\ daily_spend' = Rollover(daily_spend, spend_dates, u, today)[1]
    /\ spend_dates' = Rollover(daily_spend, spend_dates, u, today)[2]
    /\ denied_on' = IF BudgetAllowed(daily_spend, spend_dates, u, today)
                    THEN denied_on ELSE [denied_on EXCEPT ![u] = today]

\* rate_limiter.py:60-68
record_spend(u, c) ==
    /\ daily_spend' = record_spend_tables(daily_spend, spend_dates, u, today, c)[1]
    /\ spend_dates' = record_spend_tables(daily_spend, spend_dates, u, today, c)[2]
    /\ ledger' = [ledger EXCEPT ![u][today] = @ + c]

\* ------------------------------------------------------------- the clock

\* The wall clock reads later.
ClockAdvance ==
    /\ \E t \in TimePoints : t > now /\ now' = t
    /\ UNCHANGED <<inbox, today, limiter_vars, bot_vars, ret, hist_vars>>

\* The wall clock is stepped back (time.time() is not monotonic).
ClockBack ==
    /\ \E t \in TimePoints : t < now /\ now' = t
    /\ UNCHANGED <<inbox, today, limiter_vars, bot_vars, ret, hist_vars>>

\* Local midnight passes.
NextDay ==
    /\ today < MaxDay
    /\ today' = today + 1
    /\ UNCHANGED <<inbox, now, limiter_vars, bot_vars, ret, hist_vars>>

\* ------------------------------------------ RateLimiter driven directly

NoCall == [op |-> "none", user |-> Owner, t |-> 0, d |-> 0, result |-> None,
           arg |-> None, pre_last |-> None, pre_spend |-> None,
           pre_date |-> None, pre_denied |-> None, pre_ledger |-> 0,
           pre_admit |-> None, pre_check |-> <<>>]

Call(op, u, result, arg) ==
    [op |-> op, user |-> u, t |-> now, d |-> today, result |-> result,
     arg |-> arg, pre_last |-> last_query[u], pre_spend |-> daily_spend[u],
     pre_date |-> spend_dates[u], pre_denied |-> denied_on[u],
     pre_ledger |-> ledger[u][today], pre_admit |-> last_admit[u],
     pre_check |-> last_check[u]]

ApiCheckRateLimit(u) ==
    /\ check_rate_limit(u)
    /\ ret' = Call("check_rate_limit", u, ~RateDenied(last_query, u, now),
                   IF RateDenied(last_query, u, now)
                   THEN wait_time(last_query, u, now) ELSE None)
    /\ UNCHANGED <<inbox, now, today, daily_spend, spend_dates, bot_vars, ledger, denied_on, stored, first_seen>>

ApiCheckBudget(u) ==
    /\ check_budget(u)
    /\ ret' = Call("check_budget", u,
                   BudgetAllowed(daily_spend, spend_dates, u, today), None)
    /\ UNCHANGED <<inbox, now, today, last_query, bot_vars, last_admit, last_check, ledger, stored, first_seen>>

ApiRecordSpend(u, c) ==
    /\ ledger[u][today] + c <= MaxSpend
    /\ record_spend(u, c)
    /\ ret' = Call("record_spend", u, None, c)
    /\ UNCHANGED <<inbox, now, today, last_query, bot_vars, last_admit, last_check, denied_on, stored, first_seen>>

ApiGetDailySpend(u) ==
    /\ ret' = Call("get_daily_spend", u,
                   get_daily_spend(daily_spend, spend_dates, u, today), None)
    /\ UNCHANGED <<inbox, now, today, limiter_vars, bot_vars, hist_vars>>

ApiGetRemainingBudget(u) ==
    /\ ret' = Call("get_remaining_budget", u,
                   get_remaining_budget(daily_spend, spend_dates, u, today), None)
    /\ UNCHANGED <<inbox, now, today, limiter_vars, bot_vars, hist_vars>>

\* ---- the answer cache driven directly

\* result dicts handed to cache_result
CacheResults == {[answer |-> a, cost_usd |-> 5] : a \in Answers}

CacheCall(op, u, q, result) ==
    [op |-> op, user |-> u, q |-> q, t |-> now, result |-> result]

ApiCacheResult(u, q, r) ==
    /\ cache' = cache_result(cache, u, q, r, now)
    /\ stored' = [stored EXCEPT ![u] =
                     [x \in CacheQuestions |->
                         IF x = q THEN <<r, now>>
                         ELSE IF Lower(Strip(x)) = Lower(Strip(q)) THEN <<>>
                         ELSE @[x]]]
    /\ ret' = CacheCall("cache_result", u, q, <<r>>)
    /\ UNCHANGED <<inbox, now, today, limiter_vars, message_hashes, last_error, req,
                   last_admit, last_check, ledger, denied_on, first_seen>>

ApiGetCachedResult(u, q) ==
    /\ cache' = get_cached_result_table(cache, u, q, now)
    /\ ret' = CacheCall("get_cached_result", u, q, get_cached_result(cache, u, q, now))
    /\ UNCHANGED <<inbox, now, today, limiter_vars, message_hashes, last_error, req, hist_vars>>

ApiCleanupExpiredCache ==
    /\ ExpiredKeys(cache, now) # {}
    /\ cache' = cleanup_expired_cache(cache, now)
    /\ ret' = CacheCall("cleanup_expired_cache", Owner, <<>>,
                        <<Cardinality(ExpiredKeys(cache, now))>>)
    /\ UNCHANGED <<inbox, now, today, limiter_vars, message_hashes, last_error, req, hist_vars>>

\* ---- the tool permission callback called by the engine

CanUseTool(tool_name, tool_input) ==
    /\ ret' = [op |-> "enforce_read_only", tool |-> tool_name, input |-> tool_input,
               result |-> enforce_read_only(tool_name, tool_input)]
    /\ UNCHANGED <<inbox, now, today, limiter_vars, bot_vars, hist_vars>>

\* ---- the dedup guard driven directly

ApiIsDuplicateMessage(cap) ==
    /\ message_hashes' = is_duplicate_message_table(message_hashes, cap, now)
    /\ first_seen' = IF is_duplicate_message(message_hashes, cap, now) THEN first_seen
                     ELSE [first_seen EXCEPT ![cap] = now]
    /\ ret' = [op |-> "is_duplicate_message", cap |-> cap, t |-> now,
               result |-> is_duplicate_message(message_hashes, cap, now),
               pre_first |-> first_seen[cap], pre_table |-> message_hashes,
               pre_seen |-> {c \in Captures : first_seen[c] # None}]
    /\ UNCHANGED <<inbox, now, today, limiter_vars, cache, last_error, req,
                   last_admit, last_check, ledger, denied_on, stored>>

\* ------------------------------------------------------------ the handlers
\* A handler is a coroutine: it runs without interruption from one await to
\* the next, and other handlers run while it is suspended.  Each action
\* below is one such stretch.  Events are numbered in arrival order.

NewReq ==
    [kind |-> "none", pc |-> "new", user |-> Owner, q |-> <<>>, cap |-> <<>>,
     outcome |-> "pending",
     t_admit |-> None,      \* when check_rate_limit admitted it
     looked_up |-> FALSE,   \* get_cached_result was called
     engine |-> FALSE,      \* ask_vault was called
     typing |-> "none",     \* keep_typing: none, running, stopping (stop_typing set), ended
     typing_at |-> "start", \* where keep_typing is suspended: start, send, sleep, returned
     wakes |-> 0,           \* sleeps of keep_typing that ended after stop_typing was set
     result |-> <<>>,       \* what ask_vault returned
     raised |-> "none",     \* what raised inside the try: none, engine, edit
     cost |-> None,         \* the cost it passed to record_spend
     rec_day |-> None,      \* the date of that record_spend
     pre_record |-> None,   \* the user's spend of that date just before it
     seen_t |-> None,       \* when is_duplicate_message saw it
     dup |-> FALSE,         \* is_duplicate_message returned True
     saved |-> FALSE,       \* save_and_push_note was called
     filename |-> <<>>,     \* the file name it was called with
     written |-> FALSE,     \* its write_text returned
     save |-> <<>>]         \* what save_and_push_note returned

\* bot.py:158, 197, 227, 329: user_id != config.TELEGRAM_USER_ID returns.
Authorized_any(u) == TRUE
Authorized(u) == u = Owner

Arrives(r) == req[r].pc = "new" /\ (IF r = 1 THEN TRUE ELSE req[r - 1].pc # "new")

\* bot.py:237-240: check_rate_limit denies; the handler goes to reply.
RateRejected_budget_first(r, base) ==
    /\ check_rate_limit(base.user)
    /\ check_budget(base.user)
    /\ req' = [req EXCEPT ![r] = [base EXCEPT !.pc = "reply", !.outcome = "cooldown"]]
    /\ UNCHANGED <<inbox, cache, ledger, stored, first_seen>>
RateRejected(r, base) ==
    /\ check_rate_limit(base.user)
    /\ req' = [req EXCEPT ![r] = [base EXCEPT !.pc = "reply", !.outcome = "cooldown"]]
    /\ UNCHANGED <<inbox, daily_spend, spend_dates, cache, ledger, denied_on, stored, first_seen>>

\* bot.py:220-259: _handle_vault_query up to its first await.
QueryStart(r, u, q) ==
    /\ Arrives(r)
    /\ LET base == [req[r] EXCEPT !.kind = "query", !.user = u, !.q = q]
           roll == Rollover(daily_spend, spend_dates, u, today)
           hit  == get_cached_result(cache, u, q, now)
       IN
       IF ~Authorized(u) THEN
            \* bot.py:227-228
            /\ req' = [req EXCEPT ![r] = [base EXCEPT !.pc = "done", !.outcome = "dropped"]]
            /\ UNCHANGED <<limiter_vars, cache, hist_vars>>
       ELSE IF q = <<>> THEN
            \* bot.py:231-234
            /\ req' = [req EXCEPT ![r] = [base EXCEPT !.pc = "reply", !.outcome = "usage"]]
            /\ UNCHANGED <<limiter_vars, cache, hist_vars>>
       ELSE IF RateDenied(last_query, u, now) THEN
            RateRejected(r, base)
       ELSE IF ~BudgetAllowed(daily_spend, spend_dates, u, today) THEN
            \* bot.py:243-246
            /\ check_rate_limit(u)
            /\ check_budget(u)
            /\ req' = [req EXCEPT ![r] = [base EXCEPT !.pc = "reply", !.outcome = "budget",
                                                      !.t_admit = now]]
            /\ UNCHANGED <<cache, ledger, stored, first_seen>>
       ELSE
            \* bot.py:249-259
            /\ check_rate_limit(u)
            /\ check_budget(u)
            /\ cache' = get_cached_result_table(cache, u, q, now)
            /\ req' = [req EXCEPT ![r] =
                         IF hit # <<>>
                         THEN [base EXCEPT !.pc = "reply", !.outcome = "cached",
                                           !.t_admit = now, !.looked_up = TRUE]
                         ELSE [base EXCEPT !.pc = "progress", !.t_admit = now,
                                           !.looked_up = TRUE]]
            /\ UNCHANGED <<ledger, stored, first_seen>>
    /\ UNCHANGED <<inbox, now, today, message_hashes, last_error, ret>>

\* bot.py:233, 239, 245, 255, 188, 340: the awaited reply (or reaction) returns.
ReplySent(r) ==
    /\ req[r].pc = "reply"
    /\ req' = [req EXCEPT ![r].pc = "done"]
    /\ UNCHANGED <<inbox, now, today, limiter_vars, cache, message_hashes, last_error, ret, hist_vars>>

\* bot.py:259-274: the progress message is out; the typing task is created
\* and ask_vault is called.
ProgressSent(r) ==
    /\ req[r].pc = "progress"
    /\ req' = [req EXCEPT ![r].pc = "in_flight", ![r].engine = TRUE,
                          ![r].typing = "running"]
    /\ UNCHANGED <<inbox, now, today, limiter_vars, cache, message_hashes, last_error, ret, hist_vars>>

\* bot.py:274-277: ask_vault returns; stop_typing is set and the typing task awaited.
EngineReturns(r, c, a) ==
    /\ req[r].pc = "in_flight"
    /\ req' = [req EXCEPT ![r].pc = "join", ![r].typing = "stopping",
                          ![r].result = <<[answer |-> a, cost_usd |-> c]>>]
    /\ UNCHANGED <<inbox, now, today, limiter_vars, cache, message_hashes, last_error, ret, hist_vars>>

\* bot.py:299-301: ask_vault raises; stop_typing is set and the typing task awaited.
EngineFails(r) ==
    /\ req[r].pc = "in_flight"
    /\ req' = [req EXCEPT ![r].pc = "join_err", ![r].typing = "stopping",
                          ![r].raised = "engine"]
    /\ UNCHANGED <<inbox, now, today, limiter_vars, cache, message_hashes, last_error, ret, hist_vars>>

\* bot.py:263-269: keep_typing finds stop_typing set and returns.
TypingExits(r) ==
    /\ req[r].pc \in {"join", "join_err"}
    /\ req' = [req EXCEPT ![r].pc = IF @ = "join" THEN "joined" ELSE "joined_err",
                          ![r].typing = "ended"]
    /\ UNCHANGED <<inbox, now, today, limiter_vars, cache, message_hashes, last_error, ret, hist_vars>>

\* ---- keep_typing one await at a time

\* bot.py:264: the loop test
stop_typing_is_set_never(r) == FALSE
stop_typing_is_set(r) == req[r].typing = "stopping"

\* bot.py:264, 277, 301: keep_typing returns, and the handler's await on the
\* task completes; otherwise the loop calls send_action (bot.py:266).
LoopTest(r, woke) ==
    IF stop_typing_is_set(r)
    THEN req' = [req EXCEPT ![r].typing = "ended", ![r].typing_at = "returned",
                            ![r].wakes = @ + woke,
                            ![r].pc = CASE @ = "join" -> "joined"
                                        [] @ = "join_err" -> "joined_err"
                                        [] OTHER -> @]
    ELSE req' = [req EXCEPT ![r].typing_at = "send",
                            ![r].wakes = IF req[r].typing = "stopping" /\ @ + woke <= 2
                                         THEN @ + woke ELSE @]

\* bot.py:271, 264: the task created by create_task runs for the first time.
TypingRuns(r) ==
    /\ req[r].typing \in {"running", "stopping"}
    /\ req[r].typing_at = "start"
    /\ LoopTest(r, 0)
    /\ UNCHANGED <<inbox, now, today, limiter_vars, cache, message_hashes, last_error, ret, hist_vars>>

\* bot.py:265-269: send_action returns or raises (the exception is
\* swallowed); the task sleeps 4 seconds.
TypingSendReturns(r) ==
    /\ req[r].typing \in {"running", "stopping"}
    /\ req[r].typing_at = "send"
    /\ req' = [req EXCEPT ![r].typing_at = "sleep"]
    /\ UNCHANGED <<inbox, now, today, limiter_vars, cache, message_hashes, last_error, ret, hist_vars>>

\* bot.py:269, 264: the sleep ends and the loop tests stop_typing again.
TypingWakes(r) ==
    /\ req[r].typing \in {"running", "stopping"}
    /\ req[r].typing_at = "sleep"
    /\ LoopTest(r, IF req[r].typing = "stopping" THEN 1 ELSE 0)
    /\ UNCHANGED <<inbox, now, today, limiter_vars, cache, message_hashes, last_error, ret, hist_vars>>

\* bot.py:279-297: record_spend, cache_result, then the awaited edit of the
\* progress message.
Recording_touch(r) ==
    /\ req[r].pc = "joined"
    /\ LET u == req[r].user
           c == req[r].result[1].cost_usd
       IN  /\ record_spend(u, c)
           /\ cache' = cache_result(cache, u, req[r].q, req[r].result[1], now)
           /\ last_query' = [last_query EXCEPT ![u] = now]
           /\ req' = [req EXCEPT ![r].pc = "edit", ![r].cost = c, ![r].rec_day = today,
                         ![r].pre_record = get_daily_spend(daily_spend, spend_dates, u, today)]
    /\ UNCHANGED <<inbox, now, today, message_hashes, last_error, ret,
                   last_admit, last_check, denied_on, stored, first_seen>>
Recording(r) ==
    /\ req[r].pc = "joined"
    /\ LET u == req[r].user
           c == req[r].result[1].cost_usd
       IN  /\ record_spend(u, c)
           /\ cache' = cache_result(cache, u, req[r].q, req[r].result[1], now)
           /\ req' = [req EXCEPT ![r].pc = "edit", ![r].cost = c, ![r].rec_day = today,
                         ![r].pre_record = get_daily_spend(daily_spend, spend_dates, u, today)]
    /\ UNCHANGED <<inbox, now, today, last_query, message_hashes, last_error, ret,
                   last_admit, last_check, denied_on, stored, first_seen>>

\* bot.py:297: the edit returns.
EditDone(r) ==
    /\ req[r].pc = "edit"
    /\ req' = [req EXCEPT ![r].pc = "done", ![r].outcome = "answered", ![r].result = <<>>]
    /\ UNCHANGED <<inbox, now, today, limiter_vars, cache, message_hashes, last_error, ret, hist_vars>>

\* bot.py:297-303: the edit raises (Telegram refuses the text); the except
\* branch finds the typing task already ended and sends the error reply.
EditFails(r) ==
    /\ req[r].pc = "edit"
    /\ req' = [req EXCEPT ![r].pc = "reply", ![r].outcome = "error", ![r].raised = "edit",
                          ![r].result = <<>>]
    /\ UNCHANGED <<inbox, now, today, limiter_vars, cache, message_hashes, last_error, ret, hist_vars>>

\* bot.py:302-303: the error reply.
ErrorReply_charge(r) ==
    /\ req[r].pc = "joined_err"
    /\ record_spend(req[r].user, 5)
    /\ req' = [req EXCEPT ![r].pc = "reply", ![r].outcome = "error"]
    /\ UNCHANGED <<inbox, now, today, last_query, cache, message_hashes, last_error, ret,
                   last_admit, last_check, denied_on, stored, first_seen>>
ErrorReply(r) ==
    /\ req[r].pc = "joined_err"
    /\ req' = [req EXCEPT ![r].pc = "reply", ![r].outcome = "error"]
    /\ UNCHANGED <<inbox, now, today, limiter_vars, cache, message_hashes, last_error, ret, hist_vars>>

\* bot.py:316-352: handle_message up to its first await.
MessageStart(r, u, cap, fail) ==
    /\ Arrives(r)
    /\ LET base == [req[r] EXCEPT !.kind = "capture", !.user = u, !.cap = cap]
       IN
       IF ~Authorized(u) THEN
            \* bot.py:329-331
            /\ req' = [req EXCEPT ![r] = [base EXCEPT !.pc = "done", !.outcome = "dropped"]]
            /\ UNCHANGED <<message_hashes, inbox>>
       ELSE
            /\ message_hashes' = is_duplicate_message_table(message_hashes, cap, now)
            /\ req' = [req EXCEPT ![r] =
                         IF is_duplicate_message(message_hashes, cap, now)
                         THEN \* bot.py:338-341
                              [base EXCEPT !.pc = "reply", !.outcome = "duplicate",
                                           !.seen_t = now, !.dup = TRUE]
                         ELSE \* bot.py:343-352
                              [base EXCEPT !.pc = "react", !.seen_t = now, !.saved = TRUE,
                                           !.filename = generate_filename(today, now),
                                           !.written = save_and_push_note(fail).file_saved,
                                           !.save = <<save_and_push_note(fail)>>]]
            \* git_ops.py:28
            /\ inbox' = IF ~is_duplicate_message(message_hashes, cap, now)
                            /\ save_and_push_note(fail).file_saved
                         THEN write_text(inbox, generate_filename(today, now),
                                         format_note(cap, today, now))
                         ELSE inbox
    /\ UNCHANGED <<now, today, limiter_vars, cache, last_error, ret, hist_vars>>

\* bot.py:350-360: set_reaction returns (ok) or raises; last_error is
\* assigned only after it returned.
Reacted_forget(r, ok) ==
    /\ req[r].pc = "react"
    /\ LET res == req[r].save[1]
       IN  /\ last_error' = IF ~ok THEN last_error
                            ELSE IF res.success THEN NoError ELSE res.error
           /\ message_hashes' = IF res.success THEN message_hashes
                                 ELSE Without(message_hashes, hash_message(req[r].cap))
           /\ req' = [req EXCEPT ![r].pc = "done", ![r].save = <<>>,
                         ![r].outcome = IF res.success THEN "saved" ELSE "save_failed"]
    /\ UNCHANGED <<inbox, now, today, limiter_vars, cache, ret, hist_vars>>
Reacted(r, ok) ==
    /\ req[r].pc = "react"
    /\ LET res == req[r].save[1]
       IN  /\ last_error' = IF ~ok THEN last_error
                            ELSE IF res.success THEN NoError ELSE res.error
           /\ req' = [req EXCEPT ![r].pc = "done", ![r].save = <<>>,
                         ![r].outcome = IF res.success THEN "saved" ELSE "save_failed"]
    /\ UNCHANGED <<inbox, now, today, limiter_vars, cache, message_hashes, ret, hist_vars>>

\* bot.py:151-188: handle_status up to its await; it reads the ledger and last_error.
StatusStart(r, u) ==
    /\ Arrives(r)
    /\ req' = [req EXCEPT ![r] =
                 IF ~Authorized(u)
                 THEN [req[r] EXCEPT !.kind = "status", !.user = u, !.pc = "done",
                                     !.outcome = "dropped"]
                 ELSE [req[r] EXCEPT !.kind = "status", !.user = u, !.pc = "reply",
                                     !.outcome = "status"]]
    /\ UNCHANGED <<inbox, now, today, limiter_vars, cache, message_hashes, last_error, ret, hist_vars>>

\* bot.py:191-217: handle_help up to its await.
HelpStart(r, u) ==
    /\ Arrives(r)
    /\ req' = [req EXCEPT ![r] =
                 IF ~Authorized(u)
                 THEN [req[r] EXCEPT !.kind = "help", !.user = u, !.pc = "done",
                                     !.outcome = "dropped"]
                 ELSE [req[r] EXCEPT !.kind = "help", !.user = u, !.pc = "reply",
                                     !.outcome = "help"]]
    /\ UNCHANGED <<inbox, now, today, limiter_vars, cache, message_hashes, last_error, ret, hist_vars>>

\* The handler's task is cancelled while it is suspended at an await:
\* CancelledError is raised there, `except Exception` (bot.py:299, 359) does
\* not catch it and the handler exits.  A cancellation that arrives while
\* the handler awaits typing_task (bot.py:277, 301) is passed on to that task.
Cancelled(r) ==
    /\ req[r].pc \notin {"new", "done"}
    /\ req' = [req EXCEPT ![r].pc = "done", ![r].outcome = "cancelled",
                          ![r].result = <<>>, ![r].save = <<>>,
                          ![r].typing = IF @ = "stopping" THEN "ended" ELSE @]
    /\ UNCHANGED <<inbox, now, today, limiter_vars, cache, message_hashes, last_error, ret, hist_vars>>

Init ==
    /\ now = 0
    /\ today = 0
    /\ last_query = [u \in Users |-> None]
    /\ daily_spend = [u \in Users |-> None]
    /\ spend_dates = [u \in Users |-> None]
    /\ cache = EmptyMap
    /\ message_hashes = EmptyMap
    /\ inbox = EmptyMap
    /\ last_error = NoError
    /\ req = [r \in Slots |-> NewReq]
    /\ ret = NoCall
    /\ last_admit = [u \in Users |-> None]
    /\ last_check = [u \in Users |-> <<>>]
    /\ ledger = [u \in Users |-> [d \in Days |-> 0]]
    /\ denied_on = [u \in Users |-> None]
    /\ stored = [u \in Users |-> [q \in CacheQuestions |-> <<>>]]
    /\ first_seen = [cap \in Captures |-> None]

\* The wall clock reads later; it is not stepped back while the bot runs.
BotClock ==
    /\ \E t \in TimePoints : t > now /\ now' = t
    /\ UNCHANGED <<inbox, today, limiter_vars, bot_vars, ret, hist_vars>>

Next ==
    \/ BotClock
    \/ NextDay
    \/ \E r \in Slots, u \in Users, q \in Questions : QueryStart(r, u, q)
    \/ \E r \in Slots : ReplySent(r)
    \/ \E r \in Slots : ProgressSent(r)
    \/ \E r \in Slots, c \in Costs, a \in Answers : EngineReturns(r, c, a)
    \/ \E r \in Slots : EngineFails(r)
    \/ \E r \in Slots : TypingExits(r)
    \/ \E r \in Slots : Recording(r)
    \/ \E r \in Slots : EditDone(r)
    \/ \E r \in Slots : EditFails(r)
    \/ \E r \in Slots : ErrorReply(r)
    \/ \E r \in Slots, u \in Users, cap \in Captures, fail \in FailPoints :
          MessageStart(r, u, cap, fail)
    \/ \E r \in Slots, ok \in BOOLEAN : Reacted(r, ok)
    \/ \E r \in Slots, u \in Users : StatusStart(r, u)
    \/ \E r \in Slots, u \in Users : HelpStart(r, u)

Spec == Init /\ [][Next]_vars

\* One question asked again and again, and /ask with no question.
Repeated == {<<>>, <<"a">>}

\* The query handlers alone, as many of them as there are events.  Captures
\* and /status touch none of the limiter's state.
QueryNext ==
    \/ BotClock
    \/ NextDay
    \/ \E r \in Slots, u \in Users, q \in Repeated : QueryStart(r, u, q)
    \/ \E r \in Slots : ReplySent(r)
    \/ \E r \in Slots : ProgressSent(r)
    \/ \E r \in Slots, c \in Costs : EngineReturns(r, c, "a1")
    \/ \E r \in Slots : EngineFails(r)
    \/ \E r \in Slots : TypingExits(r)
    \/ \E r \in Slots : Recording(r)
    \/ \E r \in Slots : EditDone(r)
    \/ \E r \in Slots : EditFails(r)
    \/ \E r \in Slots : ErrorReply(r)

QuerySpec == Init /\ [][QueryNext]_vars

\* The query handlers, any of which may be cancelled at an await.
CancelNext ==
    \/ QueryNext
    \/ \E r \in Slots : Cancelled(r)

CancelSpec == Init /\ [][CancelNext]_vars

\* The capture handler alone: queries and /status do not touch message_hashes.
CaptureNext ==
    \/ BotClock
    \/ \E r \in Slots, u \in Users, cap \in Captures, fail \in FailPoints :
          MessageStart(r, u, cap, fail)
    \/ \E r \in Slots : ReplySent(r)
    \/ \E r \in Slots, ok \in BOOLEAN : Reacted(r, ok)

CaptureSpec == Init /\ [][CaptureNext]_vars

\* The cooldown record driven directly, as the unit tests drive it.
CooldownNext ==
    \/ ClockAdvance
    \/ ClockBack
    \/ \E u \in ApiUsers : ApiCheckRateLimit(u)

CooldownSpec == Init /\ [][CooldownNext]_vars

\* The budget ledger driven directly.
BudgetNext ==
    \/ NextDay
    \/ \E u \in ApiUsers : ApiCheckBudget(u)
    \/ \E u \in ApiUsers, c \in Costs : ApiRecordSpend(u, c)
    \/ \E u \in ApiUsers : ApiGetDailySpend(u)
    \/ \E u \in ApiUsers : ApiGetRemainingBudget(u)

BudgetSpec == Init /\ [][BudgetNext]_vars

\* The cooldown record and the budget ledger driven directly for two users.
\* The clock reads up to one cooldown after the start; each record_spend is
\* of the whole budget.
LimiterClock ==
    /\ \E t \in TimePoints : t > now /\ t <= cooldown_ms /\ now' = t
    /\ UNCHANGED <<inbox, today, limiter_vars, bot_vars, ret, hist_vars>>

LimiterNext ==
    \/ LimiterClock
    \/ NextDay
    \/ \E u \in ApiUsers : ApiCheckRateLimit(u)
    \/ \E u \in ApiUsers : ApiCheckBudget(u)
    \/ \E u \in ApiUsers : ApiRecordSpend(u, daily_budget_usd)

LimiterSpec == Init /\ [][LimiterNext]_vars

\* The owner's query handlers with keep_typing followed one await at a
\* time, over the clock readings up to the cooldown.  The event loop runs
\* every coroutine that is ready, the engine call settles and every send
\* settles.
LiveNext ==
    \/ LimiterClock
    \/ \E r \in Slots : QueryStart(r, Owner, <<"a">>)
    \/ \E r \in Slots : ReplySent(r)
    \/ \E r \in Slots : ProgressSent(r)
    \/ \E r \in Slots, c \in Costs : EngineReturns(r, c, "a1")
    \/ \E r \in Slots : EngineFails(r)
    \/ \E r \in Slots : TypingRuns(r)
    \/ \E r \in Slots : TypingSendReturns(r)
    \/ \E r \in Slots : TypingWakes(r)
    \/ \E r \in Slots : Recording(r)
    \/ \E r \in Slots : EditDone(r)
    \/ \E r \in Slots : EditFails(r)
    \/ \E r \in Slots : ErrorReply(r)

EngineSettles(r) == EngineFails(r) \/ \E c \in Costs : EngineReturns(r, c, "a1")
EditSettles(r) == EditDone(r) \/ EditFails(r)

LiveSpec ==
    /\ Init
    /\ [][LiveNext]_vars
    /\ \A r \in Slots :
          /\ WF_vars(ReplySent(r))
          /\ WF_vars(ProgressSent(r))
          /\ WF_vars(EngineSettles(r))
          /\ WF_vars(TypingRuns(r))
          /\ WF_vars(TypingSendReturns(r))
          /\ WF_vars(TypingWakes(r))
          /\ WF_vars(Recording(r))
          /\ WF_vars(EditSettles(r))
          /\ WF_vars(ErrorReply(r))

\* The permission callback on every tool call of the input sets.
ToolNext == \E tool_name \in ToolNames, tool_input \in ToolInputs :
                CanUseTool(tool_name, tool_input)

ToolSpec == Init /\ [][ToolNext]_vars

\* Every handler main() registers, for senders of both kinds, on one
\* question, one repeated capture and one way for the save to fail.
DispatchNext ==
    \/ BotClock
    \/ \E r \in Slots, u \in Users, q \in Repeated : QueryStart(r, u, q)
    \/ \E r \in Slots, u \in Users, fail \in {"none", "push"} :
          MessageStart(r, u, <<"hello", 1>>, fail)
    \/ \E r \in Slots, u \in Users : StatusStart(r, u)
    \/ \E r \in Slots, u \in Users : HelpStart(r, u)
    \/ \E r \in Slots : ReplySent(r)
    \/ \E r \in Slots : ProgressSent(r)
    \/ \E r \in Slots : EngineReturns(r, 5, "a1")
    \/ \E r \in Slots : EngineFails(r)
    \/ \E r \in Slots : TypingExits(r)
    \/ \E r \in Slots : Recording(r)
    \/ \E r \in Slots : EditDone(r)
    \/ \E r \in Slots : EditFails(r)
    \/ \E r \in Slots : ErrorReply(r)
    \/ \E r \in Slots, ok \in BOOLEAN : Reacted(r, ok)

DispatchSpec == Init /\ [][DispatchNext]_vars

\* The answer cache driven directly, as the unit tests drive it; the wall
\* clock does not step back.
CacheClock ==
    /\ \E t \in CacheTimes : t > now /\ now' = t
    /\ UNCHANGED <<inbox, today, limiter_vars, bot_vars, ret, hist_vars>>

CacheNext ==
    \/ CacheClock
    \/ \E u \in ApiUsers, q \in CacheQuestions, r \in CacheResults : ApiCacheResult(u, q, r)
    \/ \E u \in ApiUsers, q \in CacheQuestions : ApiGetCachedResult(u, q)
    \/ ApiCleanupExpiredCache

CacheSpec == Init /\ [][CacheNext]_vars

\* The dedup guard driven directly, as the unit tests drive it; the wall
\* clock does not step back.
DedupNext ==
    \/ BotClock
    \/ \E cap \in Captures : ApiIsDuplicateMessage(cap)

DedupSpec == Init /\ [][DedupNext]_vars

\* ----------------------------------------------------- claims on the bot

Admitted(r) == req[r].kind = "query" /\ req[r].t_admit # None

\* C1: any two query handlers of one user that check_rate_limit admitted
\* were admitted at timestamps at least cooldown_seconds apart, however the
\* handlers interleave.
C1_OneAdmissionPerWindow ==
    \A r1, r2 \in Slots :
        (r1 # r2 /\ Admitted(r1) /\ Admitted(r2) /\ req[r1].user = req[r2].user) =>
            \/ req[r2].t_admit - req[r1].t_admit >= cooldown_ms
            \/ req[r1].t_admit - req[r2].t_admit >= cooldown_ms

\* C1 witness: a second handler is admitted while the first is still in flight.
C1_Witness ==
    \E r1, r2 \in Slots :
        /\ r1 # r2
        /\ Admitted(r1)
        /\ Admitted(r2)
        /\ req[r1].pc = "in_flight"
        /\ req[r2].pc = "in_flight"

RecordedOn(u, d) ==
    {r \in Slots : req[r].user = u /\ req[r].cost # None /\ req[r].rec_day = d}

RECURSIVE SumCost(_)
SumCost(S) ==
    IF S = {} THEN 0
    ELSE LET r == CHOOSE x \in S : TRUE IN req[r].cost + SumCost(S \ {r})

\* C3: the stored total of a user is the sum of the costs its handlers
\* passed to record_spend on the stored date, and a date on which a handler
\* recorded is the stored date until the date changes: no update is lost,
\* however the handlers interleave.
C3_NoLostUpdate ==
    \A u \in Users :
        /\ \A d \in Days :
              spend_dates[u] = d => daily_spend[u] = SumCost(RecordedOn(u, d))
        /\ RecordedOn(u, today) # {} => spend_dates[u] = today

\* C3 witness: two overlapping handlers have both recorded a cost on one date.
C3_Witness ==
    \E r1, r2 \in Slots :
        /\ r1 # r2
        /\ req[r1].pc = "edit"
        /\ req[r2].pc = "edit"
        /\ req[r1].cost > 0
        /\ req[r2].cost > 0
        /\ req[r1].rec_day = req[r2].rec_day
        /\ daily_spend[Owner] = req[r1].cost + req[r2].cost

Captured(r) == req[r].kind = "capture" /\ req[r].seen_t # None

\* C4: of the captures with one (content, message timestamp) that arrive
\* within the dedup window of the first, the first reaches
\* save_and_push_note and every later one is a duplicate and is not saved.
C4_ExactlyOneCapture ==
    \A r1, r2 \in Slots :
        ( /\ r1 < r2
          /\ Captured(r1)
          /\ Captured(r2)
          /\ req[r1].cap = req[r2].cap
          /\ ~req[r1].dup
          /\ req[r2].seen_t - req[r1].seen_t <= dedup_window_ms ) =>
            /\ req[r1].saved
            /\ req[r2].dup
            /\ ~req[r2].saved

\* C4 witness: a redelivery exactly the dedup window after the first, a
\* duplicate, while the first handler still awaits its reaction.
C4_Witness ==
    \E r1, r2 \in Slots :
        /\ r1 < r2
        /\ Captured(r1)
        /\ Captured(r2)
        /\ req[r1].cap = req[r2].cap
        /\ req[r1].pc = "react"
        /\ req[r2].dup
        /\ req[r2].seen_t - req[r1].seen_t = dedup_window_ms

\* ask_vault returned a result to handler r
EngineOk(r) == req[r].pc \in {"join", "joined", "edit"} \/ req[r].outcome = "answered"

LedgerOps == {"check_budget", "record_spend", "get_daily_spend", "get_remaining_budget"}

\* C6: check_rate_limit(u) at time t returns Allowed exactly when u has no
\* stored timestamp or t - stored >= cooldown (elapsed = cooldown is Allowed),
\* and then stores t; after an Allowed check at t1 the next check at t2 is
\* Denied when t2 - t1 < cooldown and Allowed when t2 - t1 >= cooldown.
C6_CheckRateLimit ==
    ret.op = "check_rate_limit" =>
        /\ ret.result = (ret.pre_last = None \/ ret.t - ret.pre_last >= cooldown_ms)
        /\ (ret.result => last_query[ret.user] = ret.t)
        /\ (ret.pre_check # <<>> /\ ret.pre_check[2] =>
                ret.result = (ret.t - ret.pre_check[1] >= cooldown_ms))

\* C6 witness: a second check exactly cooldown_seconds after an Allowed one, Allowed.
C6_Witness ==
    /\ ret.op = "check_rate_limit"
    /\ ret.result
    /\ ret.pre_check # <<>>
    /\ ret.pre_check[2]
    /\ ret.t - ret.pre_check[1] = cooldown_ms

\* C7: a denied check_rate_limit leaves the stored timestamp as it was, and
\* a check made cooldown_seconds or more after the last admitted attempt is
\* admitted, however many denied attempts came in between.
C7_DenialKeepsTimestamp ==
    ret.op = "check_rate_limit" =>
        /\ (~ret.result => last_query[ret.user] = ret.pre_last)
        /\ (ret.pre_admit # None /\ ret.t - ret.pre_admit >= cooldown_ms => ret.result)

\* C7 witness: admitted exactly cooldown_seconds after the last admission,
\* right after a denied retry.
C7_Witness ==
    /\ ret.op = "check_rate_limit"
    /\ ret.result
    /\ ret.pre_check # <<>>
    /\ ~ret.pre_check[2]
    /\ ret.pre_admit # None
    /\ ret.t - ret.pre_admit = cooldown_ms

\* C8: check_budget is Allowed exactly while the costs recorded for the user
\* on the current date sum to less than daily_budget_usd, and it is never
\* Allowed on a date on which it was already Denied.
C8_BudgetMonotone ==
    ret.op = "check_budget" =>
        /\ ret.result = (ret.pre_ledger < daily_budget_usd)
        /\ (ret.result => ret.pre_denied # ret.d)

\* C8 witness: Denied again on the date of an earlier denial, after more
\* spend was recorded past the budget.
C8_Witness ==
    /\ ret.op = "check_budget"
    /\ ~ret.result
    /\ ret.pre_denied = ret.d
    /\ ret.pre_ledger > daily_budget_usd

SpentOnAnotherDay(u, d) == \E d1 \in Days : d1 # d /\ ledger[u][d1] > 0

\* C9: once spend was recorded on another date, every ledger operation on
\* the current date sees only the current date's costs: check_budget is
\* Allowed while they are below the budget (so it is Allowed before any),
\* get_daily_spend returns their sum, get_remaining_budget the budget less
\* their sum, and record_spend(c) leaves their sum plus c as the total.
C9_BudgetResets ==
    (ret.op \in LedgerOps /\ SpentOnAnotherDay(ret.user, ret.d)) =>
        /\ (ret.op = "check_budget" /\ ret.pre_ledger = 0 => ret.result)
        /\ (ret.op = "get_daily_spend" => ret.result = ret.pre_ledger)
        /\ (ret.op = "get_remaining_budget" =>
                ret.result = Max(0, daily_budget_usd - ret.pre_ledger))
        /\ (ret.op = "record_spend" =>
                /\ spend_dates[ret.user] = ret.d
                /\ daily_spend[ret.user] = ret.pre_ledger + ret.arg)

\* C9 witness: the first record_spend of a new date, over a stale record
\* that had reached the budget.
C9_Witness ==
    /\ ret.op = "record_spend"
    /\ ret.pre_date # None
    /\ ret.pre_date # ret.d
    /\ ret.pre_spend >= daily_budget_usd
    /\ ret.arg > 0
    /\ daily_spend[ret.user] = ret.arg

\* C10 as claimed: after any ledger operation the stored epoch is the
\* current date, and a stale total was reset to zero first.
C10_Original ==
    ret.op \in LedgerOps =>
        /\ spend_dates[ret.user] = ret.d
        /\ (ret.pre_date # ret.d =>
                daily_spend[ret.user] = (IF ret.op = "record_spend" THEN ret.arg ELSE 0))

\* C10 amended: check_budget and record_spend leave the stored epoch equal
\* to the current date and reset a stale total to zero before proceeding;
\* get_daily_spend and get_remaining_budget write nothing: on a stale or
\* absent record they answer 0 and the whole budget and leave the record
\* as it was.
C10_LazyRollover ==
    /\ ret.op \in {"check_budget", "record_spend"} =>
        /\ spend_dates[ret.user] = ret.d
        /\ daily_spend[ret.user] =
              (IF ret.pre_date # ret.d THEN 0 ELSE ret.pre_spend)
              + (IF ret.op = "record_spend" THEN ret.arg ELSE 0)
    /\ ret.op \in {"get_daily_spend", "get_remaining_budget"} =>
        /\ spend_dates[ret.user] = ret.pre_date
        /\ daily_spend[ret.user] = ret.pre_spend
        /\ (ret.pre_date # ret.d =>
              ret.result = (IF ret.op = "get_daily_spend" THEN 0 ELSE daily_budget_usd))

\* C10 witness: get_daily_spend on a record of an earlier date answers 0
\* and the stale record stays.
C10_Witness ==
    /\ ret.op = "get_daily_spend"
    /\ ret.pre_date # None
    /\ ret.pre_date # ret.d
    /\ ret.pre_spend > 0
    /\ ret.result = 0
    /\ spend_dates[ret.user] = ret.pre_date

\* ------------------------------------------------ claims on the ledger's shape

\* C11: a user has a stored total exactly when it has a stored epoch (one
\* record per user), the total is never negative, and while the stored
\* epoch of a user stays the same its total does not decrease, whatever
\* costs the query handlers record.
C11_OneRecordMonotone ==
    /\ [](\A u \in Users :
             /\ (daily_spend[u] = None) = (spend_dates[u] = None)
             /\ SpendGet(daily_spend, u) >= 0)
    /\ [][\A u \in Users :
             spend_dates'[u] = spend_dates[u] =>
                 SpendGet(daily_spend', u) >= SpendGet(daily_spend, u)]_vars

\* C11 witness: a handler recorded a positive cost on top of a positive
\* total of the same date, and a rollover came before both.
C11_Witness ==
    \E r \in Slots :
        /\ req[r].cost # None
        /\ req[r].cost > 0
        /\ req[r].pre_record > 0
        /\ req[r].rec_day > 0
        /\ daily_spend[req[r].user] = req[r].pre_record + req[r].cost

\* ------------------------------------------------ claims on the answer cache

\* the question text with surrounding whitespace trimmed and case folded
Normalized(q) == Lower(Strip(q))

\* the question texts of user u with a stored result that address the entry of q
StoredFor(u, q) ==
    {x \in CacheQuestions : Normalized(x) = Normalized(q) /\ stored[u][x] # <<>>}

\* C12: get_cached_result(u, q) after cache_result(u, q, r), with no store
\* for the same entry in between, returns r exactly when lookup time minus
\* insertion time is at most cache_ttl_seconds; when it is more the lookup
\* returns nothing and the entry is gone from the cache.
C12_CacheRoundTrip ==
    (ret.op = "get_cached_result" /\ stored[ret.user][ret.q] # <<>>) =>
        LET w == stored[ret.user][ret.q]
        IN  /\ (ret.t - w[2] <= cache_ttl_ms) = (ret.result = <<w[1]>>)
            /\ (ret.t - w[2] > cache_ttl_ms =>
                    /\ ret.result = <<>>
                    /\ get_cached_result(cache, ret.user, ret.q, 0) = <<>>)

\* C12 witness: a lookup exactly cache_ttl_seconds after the store returned
\* the stored result.
C12_Witness ==
    /\ ret.op = "get_cached_result"
    /\ stored[ret.user][ret.q] # <<>>
    /\ ret.t - stored[ret.user][ret.q][2] = cache_ttl_ms
    /\ ret.result = <<stored[ret.user][ret.q][1]>>

\* C13: for one user, question texts equal after trimming and case folding
\* address one entry: a lookup of one within the TTL returns the result
\* last stored under the other, and a store under one replaces what was
\* stored under the other (every such text then looks up the new result
\* and the class has one entry).
C13_NormalizedKey ==
    /\ ret.op = "get_cached_result" =>
          \A x \in StoredFor(ret.user, ret.q) :
              ret.t - stored[ret.user][x][2] <= cache_ttl_ms =>
                  ret.result = <<stored[ret.user][x][1]>>
    /\ ret.op = "cache_result" =>
          \A x \in CacheQuestions :
              Normalized(x) = Normalized(ret.q) =>
                  get_cached_result(cache, ret.user, x, ret.t) = ret.result
    /\ Cardinality(DOMAIN cache) <=
          Cardinality({p \in Users \X CacheQuestions : stored[p[1]][p[2]] # <<>>})

\* C13 witness: a lookup of "a" returned, within the TTL, what was stored
\* under " A " over an earlier store under "a".
C13_Witness ==
    /\ ret.op = "get_cached_result"
    /\ ret.q = <<"a">>
    /\ stored[ret.user][<<"a">>] = <<>>
    /\ stored[ret.user][<<" ", "A", " ">>] # <<>>
    /\ ret.result = <<stored[ret.user][<<" ", "A", " ">>][1]>>

\* C14: a lookup for (u2, q2) returns nothing or the result last stored by
\* u2 itself under a text whose normalized form equals that of q2: never
\* another user's result, never the result of a different question.
C14_NoForeignResult ==
    (ret.op = "get_cached_result" /\ ret.result # <<>>) =>
        \E x \in StoredFor(ret.user, ret.q) : ret.result = <<stored[ret.user][x][1]>>

\* C14 witness: a lookup misses although the other user holds a result for
\* the same text and the same user holds one for a different question.
C14_Witness ==
    /\ ret.op = "get_cached_result"
    /\ ret.result = <<>>
    /\ StoredFor(ret.user, ret.q) = {}
    /\ \E u \in Users : u # ret.user /\ stored[u][ret.q] # <<>>
                         /\ ret.t - stored[u][ret.q][2] <= cache_ttl_ms
    /\ \E x \in CacheQuestions : /\ Normalized(x) # Normalized(ret.q)
                                  /\ stored[ret.user][x] # <<>>
                                  /\ ret.t - stored[ret.user][x][2] <= cache_ttl_ms

\* ------------------------------------------------ claims on the dedup guard

\* C15: is_duplicate_message(c, t) returns false for a pair not recorded
\* before (also when only the content or only the timestamp matches a
\* recorded pair) and true on every later call for the same pair made
\* within the dedup window of the call that recorded it.
C15_DuplicateVerdict ==
    ret.op = "is_duplicate_message" =>
        /\ (ret.pre_first = None => ~ret.result)
        /\ (ret.pre_first # None /\ ret.t - ret.pre_first <= dedup_window_ms => ret.result)

\* C15 witness: a pair is new although its content was recorded under
\* another timestamp, and a pair recorded exactly the window ago is a duplicate.
C15_Witness ==
    /\ ret.op = "is_duplicate_message"
    /\ ret.result
    /\ ret.t - ret.pre_first = dedup_window_ms
    /\ \E c \in ret.pre_seen : c[1] = ret.cap[1] /\ c[2] # ret.cap[2]
                                /\ first_seen[c] > first_seen[ret.cap]

\* ------------------------------------------- claims on the query handler's paths

\* the step is one of handler r
Moves(r) == req'[r] # req[r]

SpendOf(u) == get_daily_spend(daily_spend, spend_dates, u, today)

\* C16: a request whose cache check hits never calls ask_vault and never
\* records; its steps leave the cache table, the costs recorded and the
\* user's spend of the day as they were; and ask_vault is called only by a
\* request that has made its cache check.
C16_CacheHitIsFree ==
    /\ [](\A r \in Slots :
             /\ (req[r].outcome = "cached" => ~req[r].engine /\ req[r].cost = None)
             /\ (req[r].engine => req[r].looked_up))
    /\ [][\A r \in Slots :
             (Moves(r) /\ req'[r].outcome = "cached") =>
                 /\ cache' = cache
                 /\ ledger' = ledger
                 /\ get_daily_spend(daily_spend', spend_dates', req'[r].user, today')
                       = SpendOf(req'[r].user)]_vars

\* C16 witness: a hit answered on the date after the one the answer was
\* paid on; the day's spend is 0 before and after.
C16_Witness ==
    \E r \in Slots :
        /\ req[r].outcome = "cached"
        /\ req[r].pc = "done"
        /\ today = 1
        /\ spend_dates[Owner] = 1
        /\ ledger[Owner][0] > 0
        /\ DOMAIN cache # {}

\* C17: when ask_vault raises, the request records no cost and stores no
\* answer: from the failure to the error reply its steps leave the spend
\* tables and the cache table as they were, and the step after the typing
\* task ended is the error reply.
C17_FailureRecordsNothing ==
    /\ [](\A r \in Slots :
             req[r].raised = "engine" => req[r].cost = None)
    /\ [][\A r \in Slots :
             (Moves(r) /\ (req'[r].raised = "engine" \/ req[r].raised = "engine")) =>
                 /\ cache' = cache
                 /\ daily_spend' = daily_spend
                 /\ spend_dates' = spend_dates
                 /\ ledger' = ledger
                 /\ (req[r].pc = "joined_err" =>
                        req'[r].pc = "reply" /\ req'[r].outcome = "error")]_vars

\* C17 witness: a failed request got its error reply while the tables hold
\* the cost and the answer of another request.
C17_Witness ==
    \E r \in Slots :
        /\ req[r].raised = "engine"
        /\ req[r].outcome = "error"
        /\ req[r].pc = "done"
        /\ daily_spend[Owner] = 10
        /\ ledger[Owner][today] = 10
        /\ DOMAIN cache # {}

\* C18 as claimed: whenever a request that started the typing task reports
\* its outcome or has exited, on any path, the typing task has ended.
C18_TypingStopped ==
    \A r \in Slots :
        (req[r].pc \in {"edit", "reply", "done"} /\ req[r].typing # "none") =>
            req[r].typing = "ended"

\* C19: a request rejected by check_rate_limit makes no budget check, no
\* cache lookup and no engine call: its steps leave the spend totals, the
\* stored epochs and the cache table as they were.
C19_RateRejectTouchesNothing ==
    /\ [](\A r \in Slots :
             req[r].outcome = "cooldown" =>
                 ~req[r].engine /\ ~req[r].looked_up /\ req[r].cost = None)
    /\ [][\A r \in Slots :
             (Moves(r) /\ req'[r].outcome = "cooldown") =>
                 /\ daily_spend' = daily_spend
                 /\ spend_dates' = spend_dates
                 /\ cache' = cache
                 /\ ledger' = ledger
                 /\ denied_on' = denied_on]_vars

\* C19 witness: a request was rejected for cooldown on the date after the
\* stored epoch, and the stale epoch and the cached answer are still there.
C19_Witness ==
    \E r \in Slots :
        /\ req[r].outcome = "cooldown"
        /\ req[r].pc = "done"
        /\ spend_dates[Owner] = 0
        /\ today = 1
        /\ daily_spend[Owner] > 0
        /\ DOMAIN cache # {}

\* ------------------------------------------------ claims on authorization

\* C20: an event of a sender other than the authorized one is dropped at
\* the handler's first test: its step leaves the cooldown, spend, cache and
\* dedup tables and last_error as they were, it calls neither ask_vault nor
\* save_and_push_note, and it awaits no reply and no reaction; so for
\* captures, the query commands, /status and /help.
C20_UnauthorizedDropped ==
    /\ [](\A r \in Slots :
             (req[r].kind # "none" /\ req[r].user # Owner) =>
                 /\ req[r].pc = "done"
                 /\ req[r].outcome = "dropped"
                 /\ ~req[r].engine
                 /\ ~req[r].looked_up
                 /\ ~req[r].saved
                 /\ req[r].seen_t = None
                 /\ req[r].typing = "none")
    /\ [][\A r \in Slots :
             (Moves(r) /\ req'[r].user # Owner) =>
                 /\ last_query' = last_query
                 /\ daily_spend' = daily_spend
                 /\ spend_dates' = spend_dates
                 /\ cache' = cache
                 /\ message_hashes' = message_hashes
                 /\ last_error' = last_error]_vars

\* C20 witness: the other sender's redelivery of a capture the owner made
\* was dropped, not answered as a duplicate, and last_error still names
\* the owner's failed push.
C20_Witness ==
    \E r \in Slots :
        /\ req[r].user = Other
        /\ req[r].kind = "capture"
        /\ req[r].outcome = "dropped"
        /\ req[r].cap \in DOMAIN message_hashes
        /\ last_error = "push"

\* ------------------------------------------------ claims on note persistence

\* the results of save_and_push_note the capture handlers hold
Results == {req[r].save[1] : r \in {x \in Slots : req[x].save # <<>>}}

\* C21: every result of save_and_push_note has success => file_saved,
\* git_committed and no error; git_committed => file_saved; ~success =>
\* an error.  A failure of git add or git commit leaves file_saved alone
\* true, a failure of git push leaves file_saved and git_committed true,
\* both without success.
C21_SaveResultShape ==
    /\ \A res \in Results :
          /\ (res.success => res.file_saved /\ res.git_committed /\ res.error = NoError)
          /\ (res.git_committed => res.file_saved)
          /\ (~res.success => res.error # NoError)
    /\ \A f \in {"add", "commit"} :
          LET res == save_and_push_note(f)
          IN  res.file_saved /\ ~res.git_committed /\ ~res.success
    /\ \A f \in {"push", "push_raise"} :
          LET res == save_and_push_note(f)
          IN  res.file_saved /\ res.git_committed /\ ~res.success

\* C21 witness: one handler holds a result with the file written and the
\* commit missing, another a result with the commit made and the push failed.
C21_Witness ==
    /\ \E res \in Results : res.file_saved /\ ~res.git_committed /\ ~res.success
    /\ \E res \in Results : res.git_committed /\ ~res.success /\ res.error = "push"

\* C22 as claimed: when a capture handler finishes, last_error is the error
\* of its save_and_push_note result if that result has success = false,
\* and is cleared if it has success = true.
C22_LastErrorFollowsResult ==
    [][\A r \in Slots :
          (req[r].pc = "react" /\ req'[r].pc = "done") =>
              last_error' = (IF req[r].save[1].success THEN NoError
                             ELSE req[r].save[1].error)]_vars

\* ------------------------------------------------ claims on the cooldown record

\* C23 as claimed: a denied check_rate_limit reports a wait of at least one
\* second, and a retry made exactly that many seconds later is admitted.
C23_WaitIsCeiling ==
    (ret.op = "check_rate_limit" /\ ~ret.result) =>
        /\ ret.arg >= 1
        /\ ~RateDenied([u \in Users |-> ret.pre_last], ret.user, ret.t + ret.arg * 1000)

\* C24: no check_rate_limit moves a stored cooldown timestamp backward (or
\* removes it), whatever the wall clock reads, a reading earlier than the
\* stored timestamp included.
C24_TimestampNeverBack ==
    [][\A u \in Users :
          last_query[u] # None => last_query'[u] >= last_query[u]]_vars

\* C24 witness: a check made when the clock read earlier than the stored
\* timestamp was denied and the timestamp stayed.
C24_Witness ==
    /\ ret.op = "check_rate_limit"
    /\ ret.pre_last # None
    /\ ret.t < ret.pre_last
    /\ ~ret.result
    /\ last_query[ret.user] = ret.pre_last

\* C25: check_rate_limit, check_budget and record_spend for one user leave
\* every other user's cooldown timestamp, spend total and spend epoch as
\* they were, and with them the verdict of every check for the other user
\* at every time and date.
C25_PerUserState ==
    [][\A a, b \in Users :
          (a # b /\ ret'.user = a) =>
              /\ last_query'[b] = last_query[b]
              /\ daily_spend'[b] = daily_spend[b]
              /\ spend_dates'[b] = spend_dates[b]
              /\ \A t \in TimePoints :
                    RateDenied(last_query', b, t) = RateDenied(last_query, b, t)
              /\ \A d \in Days :
                    BudgetAllowed(daily_spend', spend_dates', b, d)
                      = BudgetAllowed(daily_spend, spend_dates, b, d)]_vars

\* C25 witness: a first check of one user is admitted while the other user
\* is inside its cooldown and has spent its whole budget.
C25_Witness ==
    /\ ret.op = "check_rate_limit"
    /\ ret.user = Other
    /\ ret.result
    /\ ret.pre_last = None
    /\ last_query[Owner] # None
    /\ ret.t - last_query[Owner] < cooldown_ms
    /\ spend_dates[Owner] = today
    /\ daily_spend[Owner] >= daily_budget_usd
    /\ daily_spend[Other] = None

\* ------------------------------------------------ claims on the permission callback

\* C26 as claimed: enforce_read_only denies exactly the calls of a tool
\* outside READ_ONLY_TOOLS and the whitelisted calls whose file_path
\* argument or path argument holds a blocked pattern in any case; every
\* other call is allowed with its input unchanged.
C26_ReadOnlyEnforced ==
    ret.op = "enforce_read_only" =>
        LET Blocked(k) == k \in DOMAIN ret.input /\ Sensitive(ret.input[k])
        IN  /\ (ret.result.behavior = "deny") =
                  (ret.tool \notin READ_ONLY_TOOLS \/ Blocked("file_path") \/ Blocked("path"))
            /\ (ret.result.behavior = "allow" => ret.result.updated_input = ret.input)

\* ------------------------------------------------ claims on the error reply

\* C27 as claimed: the error reply is reached only on an engine error: every
\* request that ends with the error reply recorded no spend and stored no
\* cache entry.
C27_ErrorOnlyFromEngine ==
    \A r \in Slots :
        req[r].outcome = "error" =>
            /\ req[r].raised = "engine"
            /\ req[r].cost = None

\* ------------------------------------------------ claims on the dedup window

\* C28: a call that finds the pair recorded returns true and leaves the
\* recorded time as it was, so the window runs from the first sighting; a
\* call made more than DEDUP_WINDOW_SECONDS after the recorded time returns
\* false and records the pair again under the time of the call.
C28_FirstSightingKept ==
    ret.op = "is_duplicate_message" =>
        LET h == hash_message(ret.cap)
            known == h \in DOMAIN ret.pre_table
        IN  /\ h \in DOMAIN message_hashes
            /\ (ret.result => known /\ message_hashes[h] = ret.pre_table[h])
            /\ (known /\ ret.t - ret.pre_table[h] <= dedup_window_ms =>
                    ret.result /\ message_hashes[h] = ret.pre_table[h])
            /\ (known /\ ret.t - ret.pre_table[h] > dedup_window_ms =>
                    ~ret.result /\ message_hashes[h] = ret.t)

\* C28 witness: a pair first seen at 0 is delivered again after the window,
\* found new and recorded under the time of that call, while a pair recorded
\* at the edge of the first window is kept.
C28_Witness ==
    /\ ret.op = "is_duplicate_message"
    /\ ~ret.result
    /\ hash_message(ret.cap) \in DOMAIN ret.pre_table
    /\ ret.pre_table[hash_message(ret.cap)] = 0
    /\ message_hashes[hash_message(ret.cap)] = ret.t
    /\ \E c \in DOMAIN message_hashes : message_hashes[c] = dedup_window_ms

\* C29: right after a call of is_duplicate_message made at time now the
\* table holds no entry recorded more than DEDUP_WINDOW_SECONDS before now,
\* and every entry that was within the window before the call is still
\* there under the same time.
C29_EagerSweep ==
    ret.op = "is_duplicate_message" =>
        /\ \A h \in DOMAIN message_hashes : ret.t - message_hashes[h] <= dedup_window_ms
        /\ \A h \in DOMAIN ret.pre_table :
               ret.t - ret.pre_table[h] <= dedup_window_ms =>
                   h \in DOMAIN message_hashes /\ message_hashes[h] = ret.pre_table[h]

\* C29 witness: a call for one pair removed the expired entry of another
\* pair and kept the entry of a third that was still within the window.
C29_Witness ==
    /\ ret.op = "is_duplicate_message"
    /\ \E b \in DOMAIN ret.pre_table :
          /\ b # hash_message(ret.cap)
          /\ ret.t - ret.pre_table[b] > dedup_window_ms
          /\ b \notin DOMAIN message_hashes
    /\ \E c \in DOMAIN message_hashes :
          /\ c # hash_message(ret.cap)
          /\ c \in DOMAIN ret.pre_table
          /\ message_hashes[c] = ret.pre_table[c]

\* ------------------------------------------------ claims on the admission time

\* C30: the cooldown timestamp of a user changes only in the step in which
\* check_rate_limit admits one of the user's requests, and then to the time
\* of that step; no later step of the request (budget rejection, cache hit,
\* engine success or failure, recording, replies) changes it; and a request
\* arriving cooldown_seconds or more after the stored timestamp is admitted,
\* whatever the earlier requests are doing.
C30_StampedAtAdmission ==
    /\ [][\A u \in Users :
             last_query'[u] # last_query[u] =>
                 \E r \in Slots :
                     /\ req[r].pc = "new"
                     /\ req'[r].kind = "query"
                     /\ req'[r].user = u
                     /\ req'[r].outcome # "cooldown"
                     /\ req'[r].t_admit = now
                     /\ last_query'[u] = now]_vars
    /\ [][\A r \in Slots :
             (Moves(r) /\ req[r].pc # "new") => last_query' = last_query]_vars
    /\ [][\A r \in Slots :
             (/\ req[r].pc = "new"
              /\ req'[r].kind = "query"
              /\ Authorized(req'[r].user)
              /\ req'[r].q # <<>>
              /\ last_query[req'[r].user] # None
              /\ now - last_query[req'[r].user] >= cooldown_ms) =>
                 /\ req'[r].outcome # "cooldown"
                 /\ req'[r].t_admit = now
                 /\ last_query'[req'[r].user] = now]_vars

\* C30 witness: a request was admitted exactly cooldown_seconds after an
\* earlier one that is still waiting for the engine; it has since failed and
\* got its error reply at a later clock reading, and the stored timestamp is
\* still the time of its admission.
C30_Witness ==
    \E r1, r2 \in Slots :
        /\ req[r1].pc = "in_flight"
        /\ req[r1].user = req[r2].user
        /\ Admitted(r1)
        /\ Admitted(r2)
        /\ req[r2].t_admit - req[r1].t_admit = cooldown_ms
        /\ req[r2].raised = "engine"
        /\ req[r2].pc = "done"
        /\ now > req[r2].t_admit
        /\ last_query[req[r2].user] = req[r2].t_admit

\* ------------------------------------------------ claims on termination

TerminalOutcomes == {"cooldown", "budget", "cached", "answered", "error"}

\* C31: every authorized query with a non-empty question reaches a terminal
\* outcome (cooldown, budget, cached, answered, error) and keeps it, given
\* that the engine call settles and the sends return; once stop_typing is
\* set keep_typing returns after at most one more sleep, and the handler's
\* await on it completes.
C31_QueryTerminates ==
    /\ \A r \in Slots :
          (req[r].kind = "query" /\ Authorized(req[r].user) /\ req[r].q # <<>>)
              ~> (req[r].pc = "done" /\ req[r].outcome \in TerminalOutcomes)
    /\ [][\A r \in Slots :
             req[r].outcome # "pending" => req'[r].outcome = req[r].outcome]_vars
    /\ \A r \in Slots :
          (req[r].typing = "stopping")
              ~> (req[r].typing = "ended" /\ req[r].pc \notin {"join", "join_err"})
    /\ [](\A r \in Slots : req[r].wakes <= 1)

\* C31 witness: one request was answered by the engine after keep_typing
\* finished a sleep that stop_typing interrupted, another was answered from
\* the cache.
C31_Witness ==
    \E r1, r2 \in Slots :
        /\ req[r1].pc = "done"
        /\ req[r1].outcome = "answered"
        /\ req[r1].wakes = 1
        /\ req[r2].pc = "done"
        /\ req[r2].outcome = "cached"

\* ------------------------------------------------ claims on the order of the checks

\* the step is the start of handler r on an authorized query with a question
StartsQuery(r) ==
    /\ req[r].pc = "new"
    /\ req'[r].kind = "query"
    /\ Authorized(req'[r].user)
    /\ req'[r].q # <<>>

\* the costs recorded for u on the current date have reached the budget
OverBudget(u) == ledger[u][today] >= daily_budget_usd

\* C32 as claimed: every query of a user whose spend of the day has reached
\* daily_budget_usd is rejected with the budget message.
C32_Original ==
    [][\A r \in Slots :
          (StartsQuery(r) /\ OverBudget(req'[r].user)) => req'[r].outcome = "budget"]_vars

\* C32: a query of a user whose spend of the day has reached
\* daily_budget_usd is never served: it is rejected with the cooldown
\* message when check_rate_limit denies it and with the budget message
\* otherwise, also when the answer is in the cache and unexpired, and it
\* makes no cache lookup and no engine call; a cached answer is served only
\* to a request that passed the cooldown check and the budget check.
C32_BudgetBeforeCache ==
    /\ [][\A r \in Slots :
             (StartsQuery(r) /\ OverBudget(req'[r].user)) =>
                 /\ req'[r].outcome =
                        IF RateDenied(last_query, req'[r].user, now) THEN "cooldown" ELSE "budget"
                 /\ req'[r].pc = "reply"
                 /\ ~req'[r].looked_up
                 /\ cache' = cache]_vars
    /\ [][\A r \in Slots :
             (StartsQuery(r) /\ req'[r].outcome = "cached") =>
                 /\ ~RateDenied(last_query, req'[r].user, now)
                 /\ ~OverBudget(req'[r].user)
                 /\ req'[r].t_admit = now]_vars
    /\ [](\A r \in Slots :
             req[r].outcome = "budget" =>
                 ~req[r].looked_up /\ ~req[r].engine /\ req[r].cost = None)

\* C32 witness: a request was rejected with the budget message while the
\* answer to its question was in the cache and unexpired.
C32_Witness ==
    \E r \in Slots :
        /\ req[r].outcome = "budget"
        /\ req[r].pc = "done"
        /\ get_cached_result(cache, req[r].user, req[r].q, req[r].t_admit) # <<>>
        /\ get_cached_result(cache, req[r].user, req[r].q, now) # <<>>

\* ------------------------------------------------ claims on captures that fail to save

\* handler r called save_and_push_note and it did not succeed
FailedSave(r) ==
    /\ req[r].saved
    /\ \/ req[r].outcome = "save_failed"
       \/ req[r].save # <<>> /\ ~req[r].save[1].success

\* C33: the capture's hash is in the table from the step that attempts the
\* save, whatever the save returns, and the steps that follow a failed save
\* leave the table alone; a redelivery of the same pair within the dedup
\* window of a failed save is treated as a duplicate and is not saved.
C33_FailedSaveStaysSeen ==
    /\ [][\A r \in Slots :
             (Moves(r) /\ req'[r].saved /\ ~req[r].saved) =>
                 /\ hash_message(req'[r].cap) \in DOMAIN message_hashes'
                 /\ message_hashes'[hash_message(req'[r].cap)] = now]_vars
    /\ [][\A r \in Slots :
             (Moves(r) /\ req[r].pc = "react") => message_hashes' = message_hashes]_vars
    /\ [](\A r1, r2 \in Slots :
             (/\ r1 < r2
              /\ FailedSave(r1)
              /\ req[r2].kind = "capture"
              /\ Authorized(req[r2].user)
              /\ req[r2].cap = req[r1].cap
              /\ req[r2].seen_t - req[r1].seen_t <= dedup_window_ms) =>
                 req[r2].dup /\ ~req[r2].saved)

\* C33 witness: the note of a capture was never written, its redelivery at
\* the edge of the window was dropped as a duplicate, and its hash is in the
\* table.
C33_Witness ==
    \E r1, r2 \in Slots :
        /\ r1 < r2
        /\ req[r1].pc = "react"
        /\ ~req[r1].save[1].file_saved
        /\ req[r2].cap = req[r1].cap
        /\ req[r2].pc = "done"
        /\ req[r2].dup
        /\ ~req[r2].saved
        /\ req[r2].seen_t - req[r1].seen_t = dedup_window_ms
        /\ hash_message(req[r1].cap) \in DOMAIN message_hashes

\* ------------------------------------------------ claims on the note files

\* C34 as claimed: two distinct captures of the authorized user that were
\* not duplicates and whose notes were written are in distinct files: the
\* later one is written under another name and the file of the earlier one
\* still holds the earlier note, also when both are handled within one second.
C34_DistinctNoteFiles ==
    \A r1, r2 \in Slots :
        (/\ r1 < r2
         /\ req[r1].written
         /\ req[r2].written
         /\ req[r1].cap # req[r2].cap) =>
            /\ req[r1].filename # req[r2].filename
            /\ req[r1].filename \in DOMAIN inbox
            /\ inbox[req[r1].filename][1] = req[r1].cap[1]

====
